---- MODULE Spec2Model ----
(***************************************************************************)
(* GitLabRegistry (gitlab_registry_usage/registry/high_level_api.py): the  *)
(* layer map builder, the primary-owner attribution and the size rollups,  *)
(* driven by the registry client of low_level_api.py.                      *)
(*                                                                         *)
(* Python values are modelled as follows.                                  *)
(*   Optional[T]   a sequence of length <= 1: None is <<>>, x is <<x>>.    *)
(*   dict          a sequence of <<key, value>> pairs in insertion order,  *)
(*                 keys distinct (Put overwrites in place).                *)
(*   list          a sequence.                                             *)
(* The registry behind the client is an input: every client call draws its *)
(* answer (or its exception) from a bounded set when it is made.           *)
(***************************************************************************)
EXTENDS Naturals, Sequences, FiniteSets

\* ------------------------------------------------------------- bounds
\* Builds (update() calls and lazy builds together) of one run.
MaxBuilds == 2

\* The repositories of the registry, in catalog order.
AllRepositories == <<"A", "B">>
\* The tag names a tag list is drawn from, in listing order.
AllTags == <<"v1", "v2">>
\* The blobs of the registry.
Digests == {"L0", "L1"}
\* The byte count of each blob (its Content-Length, and its manifest size).
BlobSize(d) == CASE d = "L0" -> 0 [] d = "L1" -> 1

\* ----------------------------------------------------- Python values
None == <<>>
Some(x) == <<x>>
IsNone(o) == o = <<>>
Val(o) == o[1]

Range(s) == {s[i] : i \in 1..Len(s)}
Keys(d) == [i \in 1..Len(d) |-> d[i][1]]
KeySet(d) == {d[i][1] : i \in 1..Len(d)}
Values(d) == [i \in 1..Len(d) |-> d[i][2]]
Get(d, k) == d[CHOOSE i \in 1..Len(d) : d[i][1] = k][2]
\* d[k] = v
Put(d, k, v) ==
    IF k \in KeySet(d)
    THEN [i \in 1..Len(d) |-> IF d[i][1] = k THEN <<k, v>> ELSE d[i]]
    ELSE Append(d, <<k, v>>)

RECURSIVE sum(_)
\* Python's sum() over a sequence of integers.
sum(s) == IF s = <<>> THEN 0 ELSE s[1] + sum(Tail(s))

\* ------------------------------------------------ the registry's answers
\* The sequences of distinct digests of length n.
RECURSIVE DistinctSeqs(_)
DistinctSeqs(n) ==
    IF n = 0 THEN {<<>>}
    ELSE UNION {{Append(s, d) : d \in Digests \ Range(s)} : s \in DistinctSeqs(n - 1)}

\* Catalogs get_registry_catalog may return.
Catalogs == {SubSeq(AllRepositories, 1, n) : n \in 0..Len(AllRepositories)}
\* Tag lists get_repository_tags may return.
TagLists == {SubSeq(AllTags, 1, n) : n \in 0..Len(AllTags)}
\* Layer lists of a manifest, in manifest order.
LayerLists == UNION {DistinctSeqs(n) : n \in 0..Cardinality(Digests)}
\* What get_tag_layers returns for a manifest: with sizes attached (schema 2,
\* "layers") or without (schema 1, "fsLayers": blobSum only).
TagLayersOf(layers, sized) ==
    [i \in 1..Len(layers) |->
        <<layers[i], IF sized THEN Some(BlobSize(layers[i])) ELSE None>>]

Recoverable == {"TagsReadError", "LayersReadError"}

VARIABLES
    \* GitLabRegistry's fields
    self_registry_catalog,
    self_repository_layers,
    self_layer_sizes,
    self_primary_repository_layers,
    self_tag_sizes,
    self_tag_disk_sizes,
    self_repository_sizes,
    self_repository_disk_sizes,
    self_total_size,
    self_total_disk_size,
    \* the frame of _get_repository_layers_and_layer_sizes
    pc,
    repository,
    repository_tags,
    tag,
    tag_layers,
    layer,
    repository_layers,
    current_repository_layers,
    layer_sizes,
    \* what the caller got: "none", or the exception that reached it
    error,
    builds,
    \* the registry client, as the builder saw it: the exception of its last
    \* call ("none": it returned), the repositories whose tag or layer listing
    \* raised and the token requests per repository in the latest build, and the
    \* size lookups per digest of the build that is running
    raised,
    failed,
    lookups,
    tokens

snapshot == <<self_repository_layers, self_layer_sizes>>
cache == <<self_primary_repository_layers, self_tag_sizes, self_tag_disk_sizes,
           self_repository_sizes, self_repository_disk_sizes,
           self_total_size, self_total_disk_size>>
fields == <<self_registry_catalog, snapshot, cache>>
position == <<repository, repository_tags, tag, tag_layers, layer>>
locals == <<repository_layers, current_repository_layers, layer_sizes>>
frame == <<pc, position, locals>>
calls == <<raised, failed, lookups, tokens>>
vars == <<fields, frame, error, builds, calls>>

Init ==
    /\ self_registry_catalog = None
    /\ self_repository_layers = None
    /\ self_layer_sizes = None
    /\ self_primary_repository_layers = None
    /\ self_tag_sizes = None
    /\ self_tag_disk_sizes = None
    /\ self_repository_sizes = None
    /\ self_repository_disk_sizes = None
    /\ self_total_size = None
    /\ self_total_disk_size = None
    /\ pc = "idle"
    /\ repository = 0
    /\ repository_tags = <<>>
    /\ tag = 0
    /\ tag_layers = <<>>
    /\ layer = 0
    /\ repository_layers = <<>>
    /\ current_repository_layers = <<>>
    /\ layer_sizes = <<>>
    /\ error = "none"
    /\ builds = 0
    /\ raised = "none"
    /\ failed = {}
    /\ lookups = [d \in Digests |-> 0]
    /\ tokens = [r \in Range(AllRepositories) |-> 0]

\* ------------------------------------------------------ clear, update
\* clear() leaving the cached sizes where they are.
clear_keep_sizes ==
    /\ self_registry_catalog' = None
    /\ self_repository_layers' = None
    /\ self_layer_sizes' = None
    /\ self_primary_repository_layers' = None
    /\ UNCHANGED <<self_tag_sizes, self_tag_disk_sizes, self_repository_sizes,
                   self_repository_disk_sizes, self_total_size, self_total_disk_size>>

\* clear(): every field back to None.
clear ==
    /\ self_registry_catalog' = None
    /\ self_repository_layers' = None
    /\ self_layer_sizes' = None
    /\ self_primary_repository_layers' = None
    /\ self_tag_sizes' = None
    /\ self_tag_disk_sizes' = None
    /\ self_repository_sizes' = None
    /\ self_repository_disk_sizes' = None
    /\ self_total_size' = None
    /\ self_total_disk_size' = None

\* The frame of a finished (returned or unwound) call.
NoFrame ==
    /\ pc' = "idle"
    /\ repository' = 0
    /\ repository_tags' = <<>>
    /\ tag' = 0
    /\ tag_layers' = <<>>
    /\ layer' = 0
    /\ repository_layers' = <<>>
    /\ current_repository_layers' = <<>>
    /\ layer_sizes' = <<>>

\* Entry of _get_repository_layers_and_layer_sizes: two empty dicts, then the
\* read of self.registry_catalog that heads the loop.
EnterBuild ==
    /\ pc' = "catalog"
    /\ repository' = 0
    /\ repository_tags' = <<>>
    /\ tag' = 0
    /\ tag_layers' = <<>>
    /\ layer' = 0
    /\ repository_layers' = <<>>
    /\ current_repository_layers' = <<>>
    /\ layer_sizes' = <<>>
    /\ error' = "none"
    /\ builds' = builds + 1
    /\ raised' = "none"
    /\ failed' = {}
    /\ lookups' = [d \in Digests |-> 0]
    /\ tokens' = [r \in Range(AllRepositories) |-> 0]

\* The caller calls clear().
CallClear ==
    /\ pc = "idle"
    /\ clear
    /\ UNCHANGED <<frame, error, builds, calls>>

\* The caller calls update(): clear(), then the build.
update ==
    /\ pc = "idle"
    /\ builds < MaxBuilds
    /\ clear
    /\ EnterBuild

\* LazyBuild without the test of self._repository_layers: every read builds.
LazyBuild_always ==
    /\ pc = "idle"
    /\ builds < MaxBuilds
    /\ EnterBuild
    /\ UNCHANGED fields

\* The caller reads repository_layers or layer_sizes (or a derived property,
\* whose first step is that read) while the snapshot is unset: the build.
LazyBuild ==
    /\ pc = "idle"
    /\ builds < MaxBuilds
    /\ IsNone(self_repository_layers)
    /\ EnterBuild
    /\ UNCHANGED fields

\* ------------------------------ _get_repository_layers_and_layer_sizes
\* The loops' variables are reset when their loop is left: Python keeps the
\* last value, which nothing reads before it is assigned again.

\* The lookups counted so far, for as long as the build runs.
Running(x) == IF pc' = "idle" THEN [d \in Digests |-> 0] ELSE x

\* The repository the outer loop is at.
CurrentRepository == Val(self_registry_catalog)[repository]
\* The tag the tag loop is at.
CurrentTag == repository_tags[tag]

\* `return repository_layers, layer_sizes`, and the assignment of the pair to
\* self._repository_layers, self._layer_sizes by each of the three callers.
Return(rl, ls) ==
    /\ self_repository_layers' = Some(rl)
    /\ self_layer_sizes' = Some(ls)
    /\ NoFrame

\* The end of one pass of `for repository in self.registry_catalog`.
AfterRepository(rl, ls) ==
    IF repository < Len(Val(self_registry_catalog))
    THEN /\ pc' = "token"
         /\ repository' = repository + 1
         /\ repository_tags' = <<>>
         /\ tag' = 0
         /\ tag_layers' = <<>>
         /\ layer' = 0
         /\ repository_layers' = rl
         /\ current_repository_layers' = <<>>
         /\ layer_sizes' = ls
         /\ UNCHANGED snapshot
    ELSE Return(rl, ls)

\* The end of one pass of `for tag in repository_tags`; after the last one,
\* repository_layers[repository] = current_repository_layers.
AfterTag(crl, ls) ==
    IF tag < Len(repository_tags)
    THEN /\ pc' = "layers"
         /\ tag' = tag + 1
         /\ tag_layers' = <<>>
         /\ layer' = 0
         /\ current_repository_layers' = crl
         /\ layer_sizes' = ls
         /\ UNCHANGED <<repository, repository_tags, repository_layers, snapshot>>
    ELSE AfterRepository(Put(repository_layers, CurrentRepository, Some(crl)), ls)

\* The end of one pass of `for layer, layer_size in tag_layers.items()`.
AfterLayer(ls) ==
    IF layer < Len(tag_layers)
    THEN /\ layer' = layer + 1
         /\ layer_sizes' = ls
         /\ UNCHANGED <<pc, repository, repository_tags, tag, tag_layers,
                        repository_layers, current_repository_layers, snapshot>>
    ELSE AfterTag(current_repository_layers, ls)

\* Raise without the except clause: every exception unwinds to the caller.
Raise_uncaught(exc) ==
    /\ NoFrame
    /\ error' = exc
    /\ UNCHANGED snapshot

\* Raise with an except clause that takes LayerSizeReadError as well.
Raise_catch_all(exc) ==
    IF /\ exc \in {"TagsReadError", "LayersReadError", "LayerSizeReadError"}
       /\ pc \in {"tags", "layers", "size"}
    THEN /\ AfterRepository(Put(repository_layers, CurrentRepository, None), layer_sizes)
         /\ error' = error
    ELSE /\ NoFrame
         /\ error' = exc
         /\ UNCHANGED snapshot

\* Raise assigning what the frame holds to the fields when it unwinds.
Raise_keep_partial(exc) ==
    IF exc \in {"TagsReadError", "LayersReadError"} /\ pc \in {"tags", "layers", "size"}
    THEN /\ AfterRepository(Put(repository_layers, CurrentRepository, None), layer_sizes)
         /\ error' = error
    ELSE /\ NoFrame
         /\ error' = exc
         /\ self_repository_layers' = Some(repository_layers)
         /\ self_layer_sizes' = Some(layer_sizes)

\* Raise with the token request inside the try block and AuthTokenError in the
\* except clause: a repository without token becomes None.
Raise_token_recoverable(exc) ==
    IF \/ exc \in {"TagsReadError", "LayersReadError"} /\ pc \in {"tags", "layers", "size"}
       \/ exc = "AuthTokenError" /\ pc = "token"
    THEN /\ AfterRepository(Put(repository_layers, CurrentRepository, None), layer_sizes)
         /\ error' = error
    ELSE /\ NoFrame
         /\ error' = exc
         /\ UNCHANGED snapshot

\* Raise with `continue` for the except clause's assignment: a repository whose
\* listing raised gets no entry.
Raise_skip_repository(exc) ==
    IF exc \in {"TagsReadError", "LayersReadError"} /\ pc \in {"tags", "layers", "size"}
    THEN /\ AfterRepository(repository_layers, layer_sizes)
         /\ error' = error
    ELSE /\ NoFrame
         /\ error' = exc
         /\ UNCHANGED snapshot

\* An exception raised by a client call at the frame's position. Inside the try
\* block (the tag listing, the layer listing, the size lookup) the except clause
\* takes TagsReadError and LayersReadError: the repository becomes None and the
\* loop goes on. Anything else unwinds to the caller, the fields as they were.
Raise(exc) ==
    IF exc \in {"TagsReadError", "LayersReadError"} /\ pc \in {"tags", "layers", "size"}
    THEN /\ AfterRepository(Put(repository_layers, CurrentRepository, None), layer_sizes)
         /\ error' = error
    ELSE /\ NoFrame
         /\ error' = exc
         /\ UNCHANGED snapshot

\* `for repository in <catalog>`: the first pass, or none.
EnterLoop(catalog) ==
    IF catalog = <<>>
    THEN Return(repository_layers, layer_sizes)
    ELSE /\ pc' = "token"
         /\ repository' = 1
         /\ UNCHANGED <<repository_tags, tag, tag_layers, layer, locals, snapshot>>

\* The registry_catalog property, read at the head of the loop.
RegistryCatalog ==
    /\ pc = "catalog"
    /\ UNCHANGED <<cache, builds, failed, lookups, tokens>>
    /\ \/ /\ ~IsNone(self_registry_catalog)
          /\ EnterLoop(Val(self_registry_catalog))
          /\ UNCHANGED <<self_registry_catalog, error, raised>>
       \/ /\ IsNone(self_registry_catalog)
          /\ \E catalog \in Catalogs :
                /\ self_registry_catalog' = Some(catalog)
                /\ EnterLoop(catalog)
          /\ raised' = "none"
          /\ error' = error
       \/ /\ IsNone(self_registry_catalog)
          /\ \E exc \in {"AuthTokenError", "CatalogReadError"} :
                /\ raised' = exc
                /\ Raise(exc)
          /\ UNCHANGED self_registry_catalog

\* The caller reads registry_catalog itself, outside a build.
ReadRegistryCatalog ==
    /\ pc = "idle"
    /\ IsNone(self_registry_catalog)
    /\ UNCHANGED <<snapshot, cache, frame, builds, failed, lookups, tokens>>
    /\ \/ /\ \E catalog \in Catalogs : self_registry_catalog' = Some(catalog)
          /\ raised' = "none"
          /\ error' = "none"
       \/ /\ \E exc \in {"AuthTokenError", "CatalogReadError"} :
                /\ raised' = exc
                /\ error' = exc
          /\ UNCHANGED self_registry_catalog

\* get_repository_auth_token, before the try block.
GetRepositoryAuthToken ==
    /\ pc = "token"
    /\ tokens' = [tokens EXCEPT ![CurrentRepository] = @ + 1]
    /\ UNCHANGED <<self_registry_catalog, cache, builds, failed>>
    /\ \/ /\ raised' = "none"
          /\ pc' = "tags"
          /\ UNCHANGED <<position, locals, snapshot, error>>
       \/ /\ raised' = "AuthTokenError"
          /\ Raise("AuthTokenError")
    /\ lookups' = Running(lookups)

\* current_repository_layers = {}; get_repository_tags.
GetRepositoryTags ==
    /\ pc = "tags"
    /\ UNCHANGED <<self_registry_catalog, cache, builds, tokens>>
    /\ \/ /\ \E tags \in TagLists :
                IF tags = <<>>
                THEN AfterRepository(Put(repository_layers, CurrentRepository, Some(<<>>)),
                                     layer_sizes)
                ELSE /\ pc' = "layers"
                     /\ repository_tags' = tags
                     /\ tag' = 1
                     /\ current_repository_layers' = <<>>
                     /\ UNCHANGED <<repository, tag_layers, layer, repository_layers,
                                    layer_sizes, snapshot>>
          /\ raised' = "none"
          /\ UNCHANGED <<error, failed>>
       \/ /\ raised' = "TagsReadError"
          /\ failed' = failed \cup {CurrentRepository}
          /\ Raise("TagsReadError")
    /\ lookups' = Running(lookups)

\* get_tag_layers; current_repository_layers[tag] = list(tag_layers.keys()).
GetTagLayers ==
    /\ pc = "layers"
    /\ UNCHANGED <<self_registry_catalog, cache, builds, tokens>>
    /\ \/ /\ \E layers \in LayerLists, sized \in BOOLEAN :
                LET crl == Put(current_repository_layers, CurrentTag, layers) IN
                IF layers = <<>>
                THEN AfterTag(crl, layer_sizes)
                ELSE /\ pc' = "size"
                     /\ tag_layers' = TagLayersOf(layers, sized)
                     /\ layer' = 1
                     /\ current_repository_layers' = crl
                     /\ UNCHANGED <<repository, repository_tags, tag, repository_layers,
                                    layer_sizes, snapshot>>
          /\ raised' = "none"
          /\ UNCHANGED <<error, failed>>
       \/ /\ raised' = "LayersReadError"
          /\ failed' = failed \cup {CurrentRepository}
          /\ Raise("LayersReadError")
       \/ \* a manifest size that is no integer
          /\ raised' = "LayerSizeReadError"
          /\ UNCHANGED failed
          /\ Raise("LayerSizeReadError")
    /\ lookups' = Running(lookups)

\* `not layer_size`
Not(layer_size) == IF IsNone(layer_size) THEN TRUE ELSE Val(layer_size) = 0

\* One pass of the layer loop: get_layer_size when `not layer_size`, then
\* layer_sizes[layer] = layer_size.
ProcessLayer ==
    /\ pc = "size"
    /\ UNCHANGED <<self_registry_catalog, cache, builds, failed, tokens>>
    /\ LET digest == tag_layers[layer][1]
           layer_size == tag_layers[layer][2]
       IN  \/ /\ ~Not(layer_size)
              /\ AfterLayer(Put(layer_sizes, digest, Val(layer_size)))
              /\ UNCHANGED <<error, raised>>
              /\ lookups' = Running(lookups)
           \/ /\ Not(layer_size)
              /\ raised' = "none"
              /\ AfterLayer(Put(layer_sizes, digest, BlobSize(digest)))
              /\ error' = error
              /\ lookups' = Running([lookups EXCEPT ![digest] = @ + 1])
           \/ /\ Not(layer_size)
              /\ raised' = "LayerSizeReadError"
              /\ Raise("LayerSizeReadError")
              /\ lookups' = Running([lookups EXCEPT ![digest] = @ + 1])

\* ------------------------------------- _get_primary_repository_layers
RepositoryWithTag(r, t) == [repository |-> r, tag |-> t]

\* Origin with `<=` for `<`: a tag with as many layers takes the layer too.
Origin_not_strict(layer_to_origin, rl, l, r, t, layers) ==
    IF l \notin Range(layers) THEN layer_to_origin
    ELSE IF l \notin KeySet(layer_to_origin)
    THEN Put(layer_to_origin, l, RepositoryWithTag(r, t))
    ELSE LET origin == Get(layer_to_origin, l)
             current_origin_tag_layers == Get(rl, origin.repository)
         IN  IF /\ ~IsNone(current_origin_tag_layers)
                /\ Len(layers) <= Len(Get(Val(current_origin_tag_layers), origin.tag))
             THEN Put(layer_to_origin, l, RepositoryWithTag(r, t))
             ELSE layer_to_origin

\* Origin without the else branch: the first tag listing the layer keeps it.
Origin_first_wins(layer_to_origin, rl, l, r, t, layers) ==
    IF l \notin Range(layers) THEN layer_to_origin
    ELSE IF l \notin KeySet(layer_to_origin)
    THEN Put(layer_to_origin, l, RepositoryWithTag(r, t))
    ELSE layer_to_origin

\* Origin comparing with the tag of the first origin recorded, whatever its
\* layer, for layer_to_origin[layer].
Origin_first_origin(layer_to_origin, rl, l, r, t, layers) ==
    IF l \notin Range(layers) THEN layer_to_origin
    ELSE IF l \notin KeySet(layer_to_origin)
    THEN Put(layer_to_origin, l, RepositoryWithTag(r, t))
    ELSE LET origin == layer_to_origin[1][2]
             current_origin_tag_layers == Get(rl, origin.repository)
         IN  IF /\ ~IsNone(current_origin_tag_layers)
                /\ Len(layers) < Len(Get(Val(current_origin_tag_layers), origin.tag))
             THEN Put(layer_to_origin, l, RepositoryWithTag(r, t))
             ELSE layer_to_origin

\* The body of the innermost loop, for one layer and one (repository, tag) with
\* its layer list: the tag takes the layer if the layer has no origin yet, or if
\* the tag has fewer layers than the origin's tag.
Origin(layer_to_origin, rl, l, r, t, layers) ==
    IF l \notin Range(layers) THEN layer_to_origin
    ELSE IF l \notin KeySet(layer_to_origin)
    THEN Put(layer_to_origin, l, RepositoryWithTag(r, t))
    ELSE LET origin == Get(layer_to_origin, l)
             current_origin_tag_layers == Get(rl, origin.repository)
         IN  IF /\ ~IsNone(current_origin_tag_layers)
                /\ Len(layers) < Len(Get(Val(current_origin_tag_layers), origin.tag))
             THEN Put(layer_to_origin, l, RepositoryWithTag(r, t))
             ELSE layer_to_origin

RECURSIVE TagsLoop(_, _, _, _, _, _)
\* `for tag, layers in tag_layers.items()`, its first k passes.
TagsLoop(layer_to_origin, rl, l, r, tl, k) ==
    IF k = 0 THEN layer_to_origin
    ELSE Origin(TagsLoop(layer_to_origin, rl, l, r, tl, k - 1), rl, l, r, tl[k][1], tl[k][2])

RECURSIVE RepositoriesLoop(_, _, _, _)
\* `for repository, tag_layers in self.repository_layers.items()`, its first k
\* passes; a None repository is skipped.
RepositoriesLoop(layer_to_origin, rl, l, k) ==
    IF k = 0 THEN layer_to_origin
    ELSE LET before == RepositoriesLoop(layer_to_origin, rl, l, k - 1) IN
         IF IsNone(rl[k][2]) THEN before
         ELSE TagsLoop(before, rl, l, rl[k][1], Val(rl[k][2]), Len(Val(rl[k][2])))

RECURSIVE LayersLoop(_, _, _)
\* `for layer in self.layer_sizes`, its first k passes, from an empty dict.
LayersLoop(rl, order, k) ==
    IF k = 0 THEN <<>>
    ELSE RepositoriesLoop(LayersLoop(rl, order, k - 1), rl, order[k], Len(rl))

\* layer_to_origin after the loops, the layers iterated in `order`.
LayerToOrigin(rl, order) == LayersLoop(rl, order, Len(order))

\* IsPrimary comparing the repository alone.
IsPrimary_any_tag(layer_to_origin, l, r, t) == Get(layer_to_origin, l).repository = r

\* IsPrimary comparing the tag name alone.
IsPrimary_any_repository(layer_to_origin, l, r, t) == Get(layer_to_origin, l).tag = t

\* The filter of the comprehension: the layer's origin is this tag.
IsPrimary(layer_to_origin, l, r, t) == Get(layer_to_origin, l) = RepositoryWithTag(r, t)

\* primary_repository_layers, built from layer_to_origin.
PrimaryRepositoryLayers(rl, layer_to_origin) ==
    [i \in 1..Len(rl) |->
        <<rl[i][1],
          IF IsNone(rl[i][2]) THEN None
          ELSE LET tl == Val(rl[i][2]) IN
               Some([k \in 1..Len(tl) |->
                   <<tl[k][1],
                     SelectSeq(tl[k][2],
                               LAMBDA l : IsPrimary(layer_to_origin, l, rl[i][1], tl[k][1]))>>])>>]

\* _get_primary_repository_layers over the snapshot (rl, ls).
GetPrimaryRepositoryLayers(rl, ls) ==
    PrimaryRepositoryLayers(rl, LayerToOrigin(rl, Keys(ls)))

\* The comprehension of the repository_tags property (not cached): per
\* repository None, or the list of its tags.
RepositoryTags(rl) ==
    [i \in 1..Len(rl) |->
        <<rl[i][1], IF IsNone(rl[i][2]) THEN None ELSE Some(Keys(Val(rl[i][2])))>>]

\* ------------------------------------------------------------ rollups
\* sum(self.layer_sizes[layer] for layer in layers)
LayersSize(layers, ls) == sum([n \in 1..Len(layers) |-> Get(ls, layers[n])])

\* TagSizes counting a layer for the first tag of the repository that lists it
\* only.
TagSizes_dedup(rl, ls) ==
    [i \in 1..Len(rl) |->
        <<rl[i][1],
          IF IsNone(rl[i][2]) THEN None
          ELSE LET tl == Val(rl[i][2]) IN
               Some([k \in 1..Len(tl) |->
                   <<tl[k][1],
                     LayersSize(SelectSeq(tl[k][2],
                                    LAMBDA l : \A j \in 1..(k - 1) : l \notin Range(tl[j][2])),
                                ls)>>])>>]

\* TagSizes with a None repository taken as one without tags.
TagSizes_none_as_empty(rl, ls) ==
    [i \in 1..Len(rl) |->
        <<rl[i][1],
          LET tl == IF IsNone(rl[i][2]) THEN <<>> ELSE Val(rl[i][2]) IN
          Some([k \in 1..Len(tl) |-> <<tl[k][1], LayersSize(tl[k][2], ls)>>])>>]

\* The comprehension of tag_sizes: per repository None, or per tag the sum of
\* its layers' sizes.
TagSizes(rl, ls) ==
    [i \in 1..Len(rl) |->
        <<rl[i][1],
          IF IsNone(rl[i][2]) THEN None
          ELSE LET tl == Val(rl[i][2]) IN
               Some([k \in 1..Len(tl) |-> <<tl[k][1], LayersSize(tl[k][2], ls)>>])>>]

\* The comprehension of tag_disk_sizes, over primary_repository_layers.
TagDiskSizes(prl, ls) ==
    [i \in 1..Len(prl) |->
        <<prl[i][1],
          IF IsNone(prl[i][2]) THEN None
          ELSE LET primary_tag_layers == Val(prl[i][2]) IN
               Some([k \in 1..Len(primary_tag_layers) |->
                   <<primary_tag_layers[k][1],
                     LayersSize(primary_tag_layers[k][2], ls)>>])>>]

\* RepositorySizes with `sum(...) or None`: a repository whose sum is 0, one
\* without tags among them, gets None.
RepositorySizes_empty_as_none(ts) ==
    [i \in 1..Len(ts) |->
        <<ts[i][1],
          IF IsNone(ts[i][2]) THEN None
          ELSE IF sum(Values(Val(ts[i][2]))) = 0 THEN None
          ELSE Some(sum(Values(Val(ts[i][2]))))>>]

\* The comprehension of repository_sizes and of repository_disk_sizes: per
\* repository None, or the sum of its tags' sizes.
RepositorySizes(ts) ==
    [i \in 1..Len(ts) |->
        <<ts[i][1],
          IF IsNone(ts[i][2]) THEN None ELSE Some(sum(Values(Val(ts[i][2]))))>>]

\* sum(value for value in sizes.values() if value is not None)
TotalSize(rs) ==
    LET known == SelectSeq(Values(rs), LAMBDA value : ~IsNone(value)) IN
    sum([i \in 1..Len(known) |-> Val(known[i])])

\* ---------------------------------------------- the cached properties
\* Each property computes its value on the first read and keeps it; a read of a
\* kept value changes nothing. XAfter is the field after a read of property X.
PrimaryAfter ==
    IF IsNone(self_primary_repository_layers)
    THEN Some(GetPrimaryRepositoryLayers(Val(self_repository_layers), Val(self_layer_sizes)))
    ELSE self_primary_repository_layers
TagSizesAfter ==
    IF IsNone(self_tag_sizes)
    THEN Some(TagSizes(Val(self_repository_layers), Val(self_layer_sizes)))
    ELSE self_tag_sizes
TagDiskSizesAfter ==
    IF IsNone(self_tag_disk_sizes)
    THEN Some(TagDiskSizes(Val(PrimaryAfter), Val(self_layer_sizes)))
    ELSE self_tag_disk_sizes
RepositorySizesAfter ==
    IF IsNone(self_repository_sizes)
    THEN Some(RepositorySizes(Val(TagSizesAfter)))
    ELSE self_repository_sizes
RepositoryDiskSizesAfter ==
    IF IsNone(self_repository_disk_sizes)
    THEN Some(RepositorySizes(Val(TagDiskSizesAfter)))
    ELSE self_repository_disk_sizes
TotalSizeAfter ==
    IF IsNone(self_total_size)
    THEN Some(TotalSize(Val(RepositorySizesAfter)))
    ELSE self_total_size
TotalDiskSizeAfter ==
    IF IsNone(self_total_disk_size)
    THEN Some(TotalSize(Val(RepositoryDiskSizesAfter)))
    ELSE self_total_disk_size

primary_repository_layers ==
    self_primary_repository_layers' = PrimaryAfter
tag_sizes ==
    self_tag_sizes' = TagSizesAfter
tag_disk_sizes ==
    IF IsNone(self_tag_disk_sizes)
    THEN primary_repository_layers /\ self_tag_disk_sizes' = TagDiskSizesAfter
    ELSE UNCHANGED <<self_primary_repository_layers, self_tag_disk_sizes>>
repository_sizes ==
    IF IsNone(self_repository_sizes)
    THEN tag_sizes /\ self_repository_sizes' = RepositorySizesAfter
    ELSE UNCHANGED <<self_tag_sizes, self_repository_sizes>>
repository_disk_sizes ==
    IF IsNone(self_repository_disk_sizes)
    THEN tag_disk_sizes /\ self_repository_disk_sizes' = RepositoryDiskSizesAfter
    ELSE UNCHANGED <<self_primary_repository_layers, self_tag_disk_sizes,
                     self_repository_disk_sizes>>
total_size ==
    IF IsNone(self_total_size)
    THEN repository_sizes /\ self_total_size' = TotalSizeAfter
    ELSE UNCHANGED <<self_tag_sizes, self_repository_sizes, self_total_size>>
total_disk_size ==
    IF IsNone(self_total_disk_size)
    THEN repository_disk_sizes /\ self_total_disk_size' = TotalDiskSizeAfter
    ELSE UNCHANGED <<self_primary_repository_layers, self_tag_disk_sizes,
                     self_repository_disk_sizes, self_total_disk_size>>

\* The caller may read a derived property once the snapshot is there (with the
\* snapshot unset the read starts with LazyBuild).
CanRead == pc = "idle" /\ ~IsNone(self_repository_layers)
logical == <<self_tag_sizes, self_repository_sizes, self_total_size>>
disk == <<self_primary_repository_layers, self_tag_disk_sizes,
          self_repository_disk_sizes, self_total_disk_size>>
rest == <<self_registry_catalog, snapshot, frame, error, builds, calls>>

ReadPrimaryRepositoryLayers ==
    /\ CanRead
    /\ primary_repository_layers
    /\ UNCHANGED <<self_tag_disk_sizes, self_repository_disk_sizes, self_total_disk_size,
                   logical, rest>>
ReadTagSizes ==
    /\ CanRead
    /\ tag_sizes
    /\ UNCHANGED <<self_repository_sizes, self_total_size, disk, rest>>
ReadTagDiskSizes ==
    /\ CanRead
    /\ tag_disk_sizes
    /\ UNCHANGED <<self_repository_disk_sizes, self_total_disk_size, logical, rest>>
ReadRepositorySizes ==
    /\ CanRead
    /\ repository_sizes
    /\ UNCHANGED <<self_total_size, disk, rest>>
ReadRepositoryDiskSizes ==
    /\ CanRead
    /\ repository_disk_sizes
    /\ UNCHANGED <<self_total_disk_size, logical, rest>>
ReadTotalSize ==
    /\ CanRead
    /\ total_size
    /\ UNCHANGED <<disk, rest>>
ReadTotalDiskSize ==
    /\ CanRead
    /\ total_disk_size
    /\ UNCHANGED <<logical, rest>>

Read ==
    \/ ReadPrimaryRepositoryLayers
    \/ ReadTagSizes
    \/ ReadTagDiskSizes
    \/ ReadRepositorySizes
    \/ ReadRepositoryDiskSizes
    \/ ReadTotalSize
    \/ ReadTotalDiskSize

\* ------------------------------------------------------- delete_image
\* delete_image followed by clear(), the exception aside.
delete_image_clears ==
    /\ pc = "idle"
    /\ \E r \in Range(AllRepositories), image_hash \in Digests :
          error' \in {"none", "AuthTokenError", "ImageDeleteError"}
    /\ clear
    /\ UNCHANGED <<frame, builds, calls>>

\* The caller calls delete_image(repository, image_hash): the token request for
\* the repository, then the client's delete_image. Either may raise, and the
\* exception reaches the caller; no field of the object is read or assigned.
delete_image ==
    /\ pc = "idle"
    /\ \E r \in Range(AllRepositories), image_hash \in Digests :
          error' \in {"none", "AuthTokenError", "ImageDeleteError"}
    /\ UNCHANGED <<fields, frame, builds, calls>>

Build ==
    \/ RegistryCatalog
    \/ GetRepositoryAuthToken
    \/ GetRepositoryTags
    \/ GetTagLayers
    \/ ProcessLayer

Next ==
    \/ CallClear
    \/ update
    \/ LazyBuild
    \/ ReadRegistryCatalog
    \/ Build
    \/ Read
    \/ delete_image

Spec == Init /\ [][Next]_vars

\* ---------------------------------------------------------------------
\* What the claims speak of, stated over the snapshot without the loops of
\* the code.

\* The snapshot is there: a build has completed and nothing cleared it.
Built == pc = "idle" /\ ~IsNone(self_repository_layers)
RL == Val(self_repository_layers)
LS == Val(self_layer_sizes)

\* The (repository, tag) pairs of the available repositories of rl, as index
\* pairs, and a pair's layer list.
TagsOf(rl) ==
    {c \in (1..Len(rl)) \X (1..Len(AllTags)) :
        IF IsNone(rl[c[1]][2]) THEN FALSE ELSE c[2] <= Len(Val(rl[c[1]][2]))}
LayersOf(rl, c) == Val(rl[c[1]][2])[c[2]][2]
NameOf(rl, c) == RepositoryWithTag(rl[c[1]][1], Val(rl[c[1]][2])[c[2]][1])
\* The tags that list digest d, and the digests some tag lists.
Holders(rl, d) == {c \in TagsOf(rl) : d \in Range(LayersOf(rl, c))}
Occurring(rl) == {d \in Digests : Holders(rl, d) # {}}
\* c comes before e in the enumeration of repositories, then tags.
Before(c, e) == c[1] < e[1] \/ (c[1] = e[1] /\ c[2] < e[2])
\* The first of the tags listing d with the fewest layers.
FirstSmallest(rl, d) ==
    CHOOSE c \in Holders(rl, d) :
        \A e \in Holders(rl, d) \ {c} :
            \/ Len(LayersOf(rl, c)) < Len(LayersOf(rl, e))
            \/ Len(LayersOf(rl, c)) = Len(LayersOf(rl, e)) /\ Before(c, e)

RECURSIVE FnSum(_)
\* The sum of the values of a function of finite domain.
FnSum(f) ==
    IF DOMAIN f = {} THEN 0
    ELSE LET x == CHOOSE x \in DOMAIN f : TRUE IN
         f[x] + FnSum([y \in DOMAIN f \ {x} |-> f[y]])

\* The entry of repository r in a per-repository dict.
Entry(d, r) == Get(d, r)
\* The available repositories of a per-repository dict, as indices.
Known(d) == {i \in 1..Len(d) : ~IsNone(d[i][2])}

\* C1. Conservation: once total_disk_size has been read, it is the sum of the
\* repository_disk_sizes of the available repositories, and it is the sum of
\* layer_sizes[d] over the distinct digests d listed by some tag of an
\* available repository, each counted once.
C1_Conservation ==
    ~IsNone(self_total_disk_size) =>
        /\ ~IsNone(self_repository_disk_sizes)
        /\ Val(self_total_disk_size) =
              FnSum([i \in Known(Val(self_repository_disk_sizes)) |->
                        Val(Val(self_repository_disk_sizes)[i][2])])
        /\ Val(self_total_disk_size) = FnSum([d \in Occurring(RL) |-> Get(LS, d)])

\* C1's case: the total is read for a snapshot in which a layer of non-zero
\* size is shared by two tags and another repository is unavailable.
C1_Witness ==
    /\ ~IsNone(self_total_disk_size)
    /\ Val(self_total_disk_size) > 0
    /\ \E d \in Occurring(RL) : Get(LS, d) > 0 /\ Cardinality(Holders(RL, d)) >= 2
    /\ \E i \in 1..Len(RL) : IsNone(RL[i][2])

\* C2. Ownership totality, as claimed: after a completed build every key of
\* layer_sizes has an origin in layer_to_origin, and the origin's layer list
\* holds the digest.
C2_OwnershipTotality ==
    Built =>
        LET layer_to_origin == LayerToOrigin(RL, Keys(LS)) IN
        \A d \in KeySet(LS) :
            /\ d \in KeySet(layer_to_origin)
            /\ LET origin == Get(layer_to_origin, d) IN
               /\ ~IsNone(Get(RL, origin.repository))
               /\ d \in Range(Get(Val(Get(RL, origin.repository)), origin.tag))

\* C2's failing case is a digest left in layer_sizes by a repository that became
\* None after one of its tags had been processed.
C2_Orphan == Built /\ KeySet(LS) \ Occurring(RL) # {}

\* The snapshot without repository r.
Without(rl, r) == SelectSeq(rl, LAMBDA e : e[1] # r)

\* C3. Unavailability: after a build in which the tag listing or a layer listing
\* of repository r raised, r is None in repository_layers and in tag_sizes,
\* tag_disk_sizes, repository_sizes and repository_disk_sizes as soon as they
\* are read (None, not 0 and not an empty dict); both totals can be read; and
\* each total is what it would be were r not in the registry.
C3_Unavailable ==
    (Built /\ failed # {}) =>
        /\ TotalSize(RepositorySizes(TagSizes(RL, LS))) \in Nat
        /\ TotalSize(RepositorySizes(TagDiskSizes(GetPrimaryRepositoryLayers(RL, LS), LS))) \in Nat
        /\ \A r \in failed :
            /\ IsNone(Entry(RL, r))
            /\ ~IsNone(self_tag_sizes) => IsNone(Entry(Val(self_tag_sizes), r))
            /\ ~IsNone(self_tag_disk_sizes) => IsNone(Entry(Val(self_tag_disk_sizes), r))
            /\ ~IsNone(self_repository_sizes) =>
                  IsNone(Entry(Val(self_repository_sizes), r))
            /\ ~IsNone(self_repository_disk_sizes) =>
                  IsNone(Entry(Val(self_repository_disk_sizes), r))
            /\ ~IsNone(self_total_size) =>
                  Val(self_total_size) =
                      TotalSize(RepositorySizes(TagSizes(Without(RL, r), LS)))
            /\ ~IsNone(self_total_disk_size) =>
                  Val(self_total_disk_size) =
                      TotalSize(RepositorySizes(TagDiskSizes(
                          GetPrimaryRepositoryLayers(Without(RL, r), LS), LS)))

\* C3's case: a listing of one repository raised, another repository has layers
\* of non-zero size, and every derived property has been read.
C3_Witness ==
    /\ Built
    /\ failed # {}
    /\ ~IsNone(self_tag_sizes)
    /\ ~IsNone(self_repository_sizes)
    /\ ~IsNone(self_total_size)
    /\ ~IsNone(self_total_disk_size)
    /\ Val(self_total_size) > Val(self_total_disk_size)
    /\ Val(self_total_disk_size) > 0

\* s is a prefix of t.
IsPrefix(s, t) == Len(s) <= Len(t) /\ SubSeq(t, 1, Len(s)) = s

\* C4. A TagsReadError or LayersReadError does not leave the build. The step in
\* which the listing of the current repository raises records that repository
\* as None after the entries recorded so far, leaves layer_sizes and the caller
\* alone, and goes on with the next repository of the catalog, or returns the
\* two dicts when there is none. No step of a build changes the entry of a
\* repository recorded before.
C4_RecoverableContained ==
    /\ [][(failed # failed' /\ failed \subseteq failed') =>
            LET r == CurrentRepository
                rl == Append(repository_layers, <<r, None>>)
            IN  /\ failed' = failed \cup {r}
                /\ raised' \in Recoverable
                /\ error' = "none"
                /\ IF repository < Len(Val(self_registry_catalog))
                   THEN /\ pc' = "token"
                        /\ repository' = repository + 1
                        /\ repository_layers' = rl
                        /\ layer_sizes' = layer_sizes
                        /\ IsNone(self_repository_layers')
                   ELSE /\ pc' = "idle"
                        /\ self_repository_layers' = Some(rl)
                        /\ self_layer_sizes' = Some(layer_sizes)]_vars
    /\ [][(pc # "idle" /\ pc' # "idle") =>
            IsPrefix(repository_layers, repository_layers')]_vars
    /\ [][(pc # "idle" /\ pc' = "idle" /\ error' = "none") =>
            /\ ~IsNone(self_repository_layers')
            /\ Keys(Val(self_repository_layers')) = Val(self_registry_catalog')
            /\ \/ IsPrefix(repository_layers, Val(self_repository_layers'))
               \/ repository = 0]_vars

\* C4's case: the first repository's listing raised and the build has gone on
\* to record the second repository with its tags.
C4_Witness ==
    /\ Built
    /\ Len(RL) = 2
    /\ RL[1][1] \in failed
    /\ IsNone(RL[1][2])
    /\ ~IsNone(RL[2][2])
    /\ Val(RL[2][2]) # <<>>

\* C5. A LayerSizeReadError ends the build. The step in which a client call
\* raises it unwinds to the caller with that error: the frame is gone, so no
\* further repository, tag or layer is processed; no repository is recorded as
\* unavailable for it; and neither dict reaches the fields, so no size stands
\* for the layer. Until the next build the caller holds the error and no
\* snapshot.
C5_SizeErrorFatal ==
    /\ [][(pc # "idle" /\ raised' = "LayerSizeReadError") =>
            /\ pc' = "idle"
            /\ error' = "LayerSizeReadError"
            /\ failed' = failed
            /\ repository_layers' = <<>>
            /\ layer_sizes' = <<>>
            /\ IsNone(self_repository_layers')
            /\ IsNone(self_layer_sizes')]_vars
    /\ [](error = "LayerSizeReadError" =>
            pc = "idle" /\ IsNone(self_repository_layers) /\ IsNone(self_layer_sizes))

\* C5's case: the first repository was recorded as unavailable, and then a
\* LayerSizeReadError raised while the second was processed reached the caller.
C5_Witness ==
    /\ error = "LayerSizeReadError"
    /\ raised = "LayerSizeReadError"
    /\ pc = "idle"
    /\ failed = {"A"}
    /\ tokens["B"] = 1

\* C6. Size lookups, as claimed: get_layer_size is called at most once per
\* digest in one build.
C6_LookupOncePerDigest == \A d \in Digests : lookups[d] <= 1

\* C7. Attribution: every digest listed by an available repository is owned
\* by the first, in the order of repositories and then tags, of the tags with
\* the fewest layers among those listing it. Both layer_to_origin and the
\* primary lists read from the object say so.
C7_FirstSmallestOwns ==
    /\ Built =>
          LET layer_to_origin == LayerToOrigin(RL, Keys(LS)) IN
          \A d \in Occurring(RL) :
              Get(layer_to_origin, d) = NameOf(RL, FirstSmallest(RL, d))
    /\ ~IsNone(self_primary_repository_layers) =>
          \A c \in TagsOf(RL) : \A d \in Range(LayersOf(RL, c)) :
              d \in Range(LayersOf(Val(self_primary_repository_layers), c))
                  <=> c = FirstSmallest(RL, d)

\* C7's case: the primary lists have been read; one digest went to a later tag
\* with fewer layers, another stayed with the first of two tags of equal
\* length.
C7_Witness ==
    /\ ~IsNone(self_primary_repository_layers)
    /\ \E d \in Occurring(RL) : \E c \in Holders(RL, d) :
          /\ Before(c, FirstSmallest(RL, d))
          /\ d \in Range(LayersOf(Val(self_primary_repository_layers), FirstSmallest(RL, d)))
    /\ \E d \in Occurring(RL) : \E e \in Holders(RL, d) :
          /\ Before(FirstSmallest(RL, d), e)
          /\ Len(LayersOf(RL, e)) = Len(LayersOf(RL, FirstSmallest(RL, d)))

\* The size of tag c in a per-repository dict of per-tag sizes.
SizeAt(ts, c) == Val(ts[c[1]][2])[c[2]][2]

\* C8. Logical >= disk: once tag_sizes and tag_disk_sizes have been read, no tag
\* of an available repository has a disk size above its logical size.
C8_LogicalAtLeastDisk ==
    (~IsNone(self_tag_sizes) /\ ~IsNone(self_tag_disk_sizes)) =>
        \A c \in TagsOf(RL) :
            SizeAt(Val(self_tag_sizes), c) >= SizeAt(Val(self_tag_disk_sizes), c)

\* C8's case: both have been read; one tag's disk size is below its logical
\* size, another tag's sizes are equal and not zero.
C8_Witness ==
    /\ ~IsNone(self_tag_sizes)
    /\ ~IsNone(self_tag_disk_sizes)
    /\ \E c \in TagsOf(RL) :
          SizeAt(Val(self_tag_sizes), c) > SizeAt(Val(self_tag_disk_sizes), c)
    /\ \E c \in TagsOf(RL) :
          /\ SizeAt(Val(self_tag_sizes), c) = SizeAt(Val(self_tag_disk_sizes), c)
          /\ SizeAt(Val(self_tag_disk_sizes), c) > 0

\* C9, as claimed: a tag's logical and disk sizes are equal exactly when the
\* tag owns every digest it lists.
C9_EqualIffOwnsAll ==
    (~IsNone(self_tag_sizes) /\ ~IsNone(self_tag_disk_sizes)) =>
        \A c \in TagsOf(RL) :
            SizeAt(Val(self_tag_sizes), c) = SizeAt(Val(self_tag_disk_sizes), c)
                <=> \A d \in Range(LayersOf(RL, c)) : FirstSmallest(RL, d) = c

\* C9, amended: a tag's logical and disk sizes are equal exactly when the tag
\* owns every digest it lists whose size is not zero.
C9_EqualIffOwnsAllNonZero ==
    (~IsNone(self_tag_sizes) /\ ~IsNone(self_tag_disk_sizes)) =>
        \A c \in TagsOf(RL) :
            SizeAt(Val(self_tag_sizes), c) = SizeAt(Val(self_tag_disk_sizes), c)
                <=> \A d \in Range(LayersOf(RL, c)) :
                        FirstSmallest(RL, d) = c \/ Get(LS, d) = 0

\* C9's case: both have been read; one tag has equal sizes although another tag
\* owns a (zero-size) layer of it, and one tag has a disk size below its logical
\* size.
C9_Witness ==
    /\ ~IsNone(self_tag_sizes)
    /\ ~IsNone(self_tag_disk_sizes)
    /\ \E c \in TagsOf(RL) :
          /\ SizeAt(Val(self_tag_sizes), c) = SizeAt(Val(self_tag_disk_sizes), c)
          /\ \E d \in Range(LayersOf(RL, c)) : FirstSmallest(RL, d) # c
    /\ \E c \in TagsOf(RL) :
          SizeAt(Val(self_tag_sizes), c) # SizeAt(Val(self_tag_disk_sizes), c)

\* The orders in which the keys of a dict can be iterated.
Orders(d) == {o \in [1..Len(d) -> KeySet(d)] : Range(o) = KeySet(d)}
\* A dict as a function of its keys.
AsMap(d) == [k \in KeySet(d) |-> Get(d, k)]

\* C10. Attribution does not depend on the order in which the digests of
\* layer_sizes are iterated: for every order, layer_to_origin gives each digest
\* the origin it has under the dict's own order, and the primary lists built
\* from it are the ones the object holds.
C10_OrderIndependent ==
    Built =>
        \A order \in Orders(LS) :
            /\ AsMap(LayerToOrigin(RL, order)) = AsMap(LayerToOrigin(RL, Keys(LS)))
            /\ ~IsNone(self_primary_repository_layers) =>
                  PrimaryRepositoryLayers(RL, LayerToOrigin(RL, order)) =
                      Val(self_primary_repository_layers)

\* C10's case: the primary lists have been read for a snapshot with two
\* digests, each listed by several tags, whose sizes were recorded in the order
\* L1, L0.
C10_Witness ==
    /\ ~IsNone(self_primary_repository_layers)
    /\ Keys(LS) = <<"L1", "L0">>
    /\ \A d \in KeySet(LS) : Cardinality(Holders(RL, d)) >= 2
    /\ \E d \in KeySet(LS) : Before(CHOOSE c \in Holders(RL, d) :
                                        \A e \in Holders(RL, d) : c = e \/ Before(c, e),
                                    FirstSmallest(RL, d))

\* C11. The snapshot is one completed build or nothing. The two fields are unset
\* together and set together; they are unset for as long as a build runs; they
\* are set only by the step that completes a build without an error, to the two
\* dicts of that build's frame, and after that changed only by being unset; a
\* build that ends with an error at the caller leaves both unset. Every digest
\* the layer map lists then has its size in the size table, and every cached
\* derived value has a snapshot under it.
C11_SnapshotAtomic ==
    /\ [](IsNone(self_repository_layers) <=> IsNone(self_layer_sizes))
    /\ [](pc # "idle" => IsNone(self_repository_layers) /\ IsNone(self_layer_sizes))
    /\ [](~IsNone(self_repository_layers) =>
            \A d \in Occurring(RL) : d \in KeySet(LS) /\ Get(LS, d) = BlobSize(d))
    /\ [](\A i \in 1..Len(cache) : ~IsNone(cache[i]) => ~IsNone(self_repository_layers))
    /\ [][snapshot' # snapshot =>
            IF IsNone(self_repository_layers')
            THEN IsNone(self_layer_sizes')
            ELSE /\ IsNone(self_repository_layers)
                 /\ IsNone(self_layer_sizes)
                 /\ pc # "idle"
                 /\ pc' = "idle"
                 /\ error' = "none"
                 /\ ~IsNone(self_layer_sizes')
                 /\ Keys(Val(self_repository_layers')) = Val(self_registry_catalog')
                 /\ repository = Len(Val(self_registry_catalog'))
                 /\ IsPrefix(repository_layers, Val(self_repository_layers'))
                 /\ IsPrefix(Keys(layer_sizes), Keys(Val(self_layer_sizes')))]_vars
    /\ [][(pc # "idle" /\ pc' = "idle" /\ error' # "none") =>
            IsNone(self_repository_layers') /\ IsNone(self_layer_sizes')]_vars

\* C11's case: a build was aborted by a fatal error (the token request for the
\* second repository) after it had recorded the first repository in its frame,
\* and nothing of it is in the fields.
C11_Witness ==
    /\ pc = "idle"
    /\ error = "AuthTokenError"
    /\ raised = "AuthTokenError"
    /\ tokens["A"] = 1
    /\ tokens["B"] = 1
    /\ failed = {}
    /\ ~IsNone(self_registry_catalog)
    /\ IsNone(self_repository_layers)
    /\ IsNone(self_layer_sizes)

\* The seven derived values of a snapshot, in the order of `cache`, computed
\* from nothing but the layer map and the size table.
Derived(rl, ls) ==
    LET prl == GetPrimaryRepositoryLayers(rl, ls)
        ts == TagSizes(rl, ls)
        tds == TagDiskSizes(prl, ls)
    IN  <<prl, ts, tds, RepositorySizes(ts), RepositorySizes(tds),
          TotalSize(RepositorySizes(ts)), TotalSize(RepositorySizes(tds))>>
\* Every field is None: the state clear() leaves.
Cleared == IsNone(self_registry_catalog) /\ IsNone(self_repository_layers)
              /\ IsNone(self_layer_sizes) /\ \A i \in 1..Len(cache) : IsNone(cache[i])

\* C12. A cached derived value is the value of the snapshot the object holds,
\* never of an earlier one; it is dropped only by a step that clears every field
\* (clear(), or update() on its way to the new build); and as long as it is
\* kept, no step - a repeated read included - changes it. While a build runs
\* nothing is cached, so the first read after update() computes.
C12_CacheInvalidation ==
    /\ [](IF IsNone(self_repository_layers)
          THEN \A i \in 1..Len(cache) : IsNone(cache[i])
          ELSE LET derived == Derived(RL, LS) IN
               \A i \in 1..Len(cache) : ~IsNone(cache[i]) => Val(cache[i]) = derived[i])
    /\ [](pc # "idle" => \A i \in 1..Len(cache) : IsNone(cache[i]))
    /\ [][\A i \in 1..Len(cache) :
            ~IsNone(cache[i]) => (cache'[i] = cache[i] \/ Cleared')]_vars

\* C12's case: every derived value has been read from the snapshot of the
\* second build of the run, and the sizes are not zero.
C12_Witness ==
    /\ Built
    /\ builds = 2
    /\ \A i \in 1..Len(cache) : ~IsNone(cache[i])
    /\ Val(self_total_size) > Val(self_total_disk_size)
    /\ Val(self_total_disk_size) > 0

\* C13. Built once. As long as neither clear() nor update() is called: a catalog
\* that has been fetched stays as it is, and the builder's read of it at the
\* head of its loop makes no call (nothing is raised, nothing assigned); and
\* once a build has completed, no step starts a build, makes a call of the
\* registry client on behalf of a read, or changes repository_layers,
\* layer_sizes or the catalog.
C13_BuiltOnce ==
    /\ [][~IsNone(self_registry_catalog) =>
            (Cleared' \/ self_registry_catalog' = self_registry_catalog)]_vars
    /\ [][(pc = "catalog" /\ ~IsNone(self_registry_catalog)) =>
            (error' = error /\ raised' = raised)]_vars
    /\ [][~IsNone(self_repository_layers) =>
            (Cleared' \/ UNCHANGED <<self_registry_catalog, snapshot, frame, builds, calls>>)]_vars

\* C13's case: the first build of the run has completed over a catalog of two
\* repositories, and derived values have been read from its snapshot.
C13_Witness ==
    /\ Built
    /\ builds = 1
    /\ Val(self_registry_catalog) = AllRepositories
    /\ ~IsNone(self_total_size)
    /\ ~IsNone(self_total_disk_size)
    /\ Val(self_total_disk_size) > 0

\* The token requests a build has made when its loop is at position i of the
\* catalog, the request for that position made or not.
TokensAt(catalog, i, made) ==
    [r \in Range(AllRepositories) |->
        IF \E k \in 1..Len(catalog) : catalog[k] = r /\ (k < i \/ (k = i /\ made))
        THEN 1 ELSE 0]

\* C14. One token per repository and build, requested before the repository's
\* tags are listed: while the loop is at a repository, each repository before it
\* has had one request, it has had one as soon as its listing is due, and no
\* later one has had any; a completed build has made one request for each
\* repository of the catalog. A request that raises AuthTokenError ends the
\* build in that step: the error is at the caller, the frame is gone, the
\* snapshot stays unset, no repository after it gets a request, and no
\* repository is marked unavailable for it - None stands only where a tag or
\* layer listing raised.
C14_RepositoryToken ==
    /\ [](pc \in {"token", "tags", "layers", "size"} =>
            tokens = TokensAt(Val(self_registry_catalog), repository, pc # "token"))
    /\ [](Built =>
            /\ tokens = TokensAt(Val(self_registry_catalog), Len(Val(self_registry_catalog)), TRUE)
            /\ \A i \in 1..Len(RL) : IsNone(RL[i][2]) => RL[i][1] \in failed)
    /\ [][(pc = "token" /\ raised' = "AuthTokenError") =>
            /\ pc' = "idle"
            /\ error' = "AuthTokenError"
            /\ failed' = failed
            /\ tokens' = TokensAt(Val(self_registry_catalog), repository, TRUE)
            /\ repository' = 0
            /\ repository_layers' = <<>>
            /\ IsNone(self_repository_layers')
            /\ IsNone(self_layer_sizes')]_vars

\* C14's case: the first repository was marked unavailable for its listing, and
\* then the token request for the second raised and reached the caller.
C14_Witness ==
    /\ pc = "idle"
    /\ error = "AuthTokenError"
    /\ raised = "AuthTokenError"
    /\ failed = {"A"}
    /\ tokens = [r \in Range(AllRepositories) |-> 1]
    /\ IsNone(self_repository_layers)

\* The keys of a dict are those of the list, each once.
KeysAre(d, list) == KeySet(d) = Range(list) /\ Len(d) = Len(list)

\* C15. After a completed build the repositories of repository_layers are
\* exactly those of the catalog, the unavailable ones included, and so are the
\* repositories of repository_tags and of primary_repository_layers, tag_sizes,
\* tag_disk_sizes, repository_sizes and repository_disk_sizes once read.
C15_KeysAreCatalog ==
    Built =>
        LET catalog == Val(self_registry_catalog) IN
        /\ KeysAre(RL, catalog)
        /\ KeysAre(RepositoryTags(RL), catalog)
        /\ \A i \in 1..5 : ~IsNone(cache[i]) => KeysAre(Val(cache[i]), catalog)

\* C15's case: a catalog of two repositories, the first unavailable, the second
\* with tags, and the five derived maps read.
C15_Witness ==
    /\ Built
    /\ Val(self_registry_catalog) = AllRepositories
    /\ failed = {"A"}
    /\ Get(RepositoryTags(RL), "B") = Some(AllTags)
    /\ \A i \in 1..5 : ~IsNone(cache[i])

\* C16, as claimed: a pass of the layer loop calls get_layer_size exactly when
\* the entry came without a size. A call shows in the step as the lookup log of
\* the running build growing or as LayerSizeReadError raised; an entry with a
\* size attached, 0 included, is passed with no call, the attached size stored.
C16_LookupIffUnsized ==
    [][pc = "size" =>
        LET digest == tag_layers[layer][1]
            layer_size == tag_layers[layer][2]
            called == \/ raised' = "LayerSizeReadError"
                      \/ lookups'[digest] > lookups[digest]
        IN  IF IsNone(layer_size)
            THEN called \/ pc' = "idle"
            ELSE /\ ~called
                 /\ error' = error
                 /\ pc' # "idle" => Get(layer_sizes', digest) = Val(layer_size)]_vars

RECURSIVE IsSubList(_, _)
\* s is t with some elements left out, the order kept.
IsSubList(s, t) ==
    IF s = <<>> THEN TRUE
    ELSE IF t = <<>> THEN FALSE
    ELSE IF s[1] = t[1] THEN IsSubList(Tail(s), Tail(t))
    ELSE IsSubList(s, Tail(t))

\* The places of digest d in the primary lists prl of the snapshot rl.
Places(rl, prl, d) ==
    {p \in TagsOf(rl) \X (1..Cardinality(Digests)) :
        /\ p[2] <= Len(LayersOf(prl, p[1]))
        /\ LayersOf(prl, p[1])[p[2]] = d}

\* C17. primary_repository_layers, once read, has the shape of
\* repository_layers: the same repositories in the same order, None where and
\* only where repository_layers has None, and for an available repository the
\* same tags. Each primary list is its tag's layer list with some digests left
\* out, the order kept. Every digest listed by a tag of an available repository
\* is at exactly one place of exactly one primary list.
C17_PrimaryShape ==
    ~IsNone(self_primary_repository_layers) =>
        LET prl == Val(self_primary_repository_layers) IN
        /\ Keys(prl) = Keys(RL)
        /\ \A i \in 1..Len(RL) :
              IF IsNone(RL[i][2]) THEN IsNone(prl[i][2])
              ELSE /\ ~IsNone(prl[i][2])
                   /\ Keys(Val(prl[i][2])) = Keys(Val(RL[i][2]))
        /\ \A c \in TagsOf(RL) : IsSubList(LayersOf(prl, c), LayersOf(RL, c))
        /\ \A d \in Occurring(RL) : Cardinality(Places(RL, prl, d)) = 1

\* C17's case: the primary lists have been read for a snapshot with an
\* unavailable repository and a tag that keeps some of its layers and loses
\* another to another tag.
C17_Witness ==
    /\ ~IsNone(self_primary_repository_layers)
    /\ \E i \in 1..Len(RL) : IsNone(RL[i][2])
    /\ \E c \in TagsOf(RL) :
          /\ Len(LayersOf(Val(self_primary_repository_layers), c)) > 0
          /\ Len(LayersOf(Val(self_primary_repository_layers), c)) < Len(LayersOf(RL, c))

\* The sum of the sizes of the digests tag c lists.
Logical(rl, ls, c) == FnSum([d \in Range(LayersOf(rl, c)) |-> Get(ls, d)])

\* C18. The logical rollup, once read, is the plain sum at each level. A tag's
\* size is the sum of layer_sizes over the digests it lists. A repository's size
\* is None if the repository is unavailable and otherwise the sum of its tags'
\* sizes, 0 if it has no tag. total_size is the sum of the sizes of the available
\* repositories, which is the sum over the digests of the number of tags of
\* available repositories listing the digest times its size.
C18_LogicalFold ==
    /\ ~IsNone(self_tag_sizes) =>
          \A c \in TagsOf(RL) : SizeAt(Val(self_tag_sizes), c) = Logical(RL, LS, c)
    /\ ~IsNone(self_repository_sizes) =>
          \A i \in 1..Len(RL) :
              LET size == Val(self_repository_sizes)[i][2] IN
              IF IsNone(RL[i][2]) THEN IsNone(size)
              ELSE /\ ~IsNone(size)
                   /\ Val(size) = FnSum([c \in {e \in TagsOf(RL) : e[1] = i} |->
                                            Logical(RL, LS, c)])
    /\ ~IsNone(self_total_size) =>
          /\ Val(self_total_size) =
                FnSum([i \in Known(Val(self_repository_sizes)) |->
                          Val(Val(self_repository_sizes)[i][2])])
          /\ Val(self_total_size) =
                FnSum([d \in Occurring(RL) |-> Cardinality(Holders(RL, d)) * Get(LS, d)])

\* C18's case: total_size has been read for a snapshot in which one repository
\* is available without tags, its size 0, and a digest of non-zero size is
\* listed by two tags and counted twice.
C18_Witness ==
    /\ ~IsNone(self_total_size)
    /\ \E i \in 1..Len(RL) :
          /\ RL[i][2] = Some(<<>>)
          /\ Val(self_repository_sizes)[i][2] = Some(0)
    /\ \E d \in Occurring(RL) :
          /\ Get(LS, d) > 0
          /\ Cardinality(Holders(RL, d)) = 2
          /\ Val(self_total_size) = 2 * Get(LS, d)

\* C19. delete_image changes nothing of the object, whether it returns or
\* raises: the catalog, the layer map, the size table and the seven cached
\* values are after the call what they were before it, no build is started and
\* no call of the builder is logged, so a property that could be read before
\* the call can be read after it, from the same fields. ImageDeleteError, which
\* only this call raises, reaches the caller with every field as it was.
C19_DeletePassthrough ==
    /\ [][delete_image =>
            /\ UNCHANGED <<self_registry_catalog, snapshot, cache>>
            /\ UNCHANGED <<frame, builds, calls>>
            /\ CanRead' = CanRead]_vars
    /\ [][(error' = "ImageDeleteError" /\ error # "ImageDeleteError") =>
            UNCHANGED <<self_registry_catalog, snapshot, cache, frame, builds, calls>>]_vars

\* C19's case: delete_image has raised ImageDeleteError on an object that holds
\* a snapshot and all seven derived values, the sizes not zero.
C19_Witness ==
    /\ error = "ImageDeleteError"
    /\ Built
    /\ \A i \in 1..Len(cache) : ~IsNone(cache[i])
    /\ Val(self_total_size) > Val(self_total_disk_size)
    /\ Val(self_total_disk_size) > 0
====
